---- MODULE Spec2Model ----
(***************************************************************************)
(* Model of eurozulu/argflags: ArgFlags.ApplyTo binds a list of string     *)
(* tokens to the fields of a struct through reflection.                    *)
(*                                                                         *)
(* Go strings are modelled as sequences of one-character strings, so that  *)
(* HasPrefix, TrimLeft, EqualFold, Split, ParseBool and Atoi are computed  *)
(* on the characters as the library computes them.                         *)
(***************************************************************************)
EXTENDS Integers, Sequences, FiniteSets, TLC

VARIABLES target, schema, args, alloc, val, i, unused, fld, ret, err, pc

vars == <<target, schema, args, alloc, val, i, unused, fld, ret, err, pc>>

(***************************************************************************)
(* Bounds of the model.                                                    *)
(***************************************************************************)
\* longest token list ApplyTo is run on
MaxArgs == 3
\* call depth of findFieldIndex at which the goroutine stack is exhausted
MaxStack == 6

(***************************************************************************)
(* strings                                                                 *)
(***************************************************************************)
Upper == <<"A","B","C","D","E","F","G","H","I","J","K","L","M",
           "N","O","P","Q","R","S","T","U","V","W","X","Y","Z">>
Lower == <<"a","b","c","d","e","f","g","h","i","j","k","l","m",
           "n","o","p","q","r","s","t","u","v","w","x","y","z">>
Digits == <<"0","1","2","3","4","5","6","7","8","9">>

\* position of character c in the sequence s, 0 when absent
IndexOf(c, s) ==
    IF \E k \in 1..Len(s) : s[k] = c
    THEN CHOOSE k \in 1..Len(s) : s[k] = c
    ELSE 0

\* simple case folding of the ASCII letters
FoldTable == [c \in {Upper[k] : k \in 1..Len(Upper)} |-> Lower[IndexOf(c, Upper)]]

\* simple case folding of one character
FoldChar(c) == IF c \in DOMAIN FoldTable THEN FoldTable[c] ELSE c

\* strings.EqualFold
EqualFold(s, t) ==
    /\ Len(s) = Len(t)
    /\ \A k \in 1..Len(s) : FoldChar(s[k]) = FoldChar(t[k])

\* strings.HasPrefix(s, "-")
HasDashPrefix(s) == Len(s) > 0 /\ s[1] = "-"

\* strings.TrimLeft(s, "-")
RECURSIVE TrimLeftDash(_)
TrimLeftDash(s) == IF HasDashPrefix(s) THEN TrimLeftDash(Tail(s)) ELSE s

\* strings.Split(s, ","): the pieces between the delimiters, "" gives one
\* empty piece
RECURSIVE SplitFrom(_, _)
SplitFrom(s, cur) ==
    IF s = <<>> THEN <<cur>>
    ELSE IF Head(s) = "," THEN <<cur>> \o SplitFrom(Tail(s), <<>>)
    ELSE SplitFrom(Tail(s), Append(cur, Head(s)))

Split(s) == SplitFrom(s, <<>>)

(***************************************************************************)
(* strconv                                                                 *)
(***************************************************************************)
S_true == <<"t","r","u","e">>
S_false == <<"f","a","l","s","e">>

\* the literals strconv.ParseBool accepts
BoolTrueLits == { <<"1">>, <<"t">>, <<"T">>, <<"T","R","U","E">>, S_true,
                  <<"T","r","u","e">> }
BoolFalseLits == { <<"0">>, <<"f">>, <<"F">>, <<"F","A","L","S","E">>, S_false,
                   <<"F","a","l","s","e">> }

Ok(v) == [ok |-> TRUE, v |-> v, e |-> ""]
Fail(e) == [ok |-> FALSE, v |-> 0, e |-> e]

\* strconv.ParseBool
ParseBool(s) ==
    IF s \in BoolTrueLits THEN Ok(TRUE)
    ELSE IF s \in BoolFalseLits THEN Ok(FALSE)
    ELSE Fail("syntax")

\* strconv.FormatBool
FormatBool(b) == IF b THEN S_true ELSE S_false

IsDigit(c) == IndexOf(c, Digits) > 0

RECURSIVE DigitsValue(_, _)
DigitsValue(ds, acc) ==
    IF ds = <<>> THEN acc
    ELSE DigitsValue(Tail(ds), acc * 10 + (IndexOf(Head(ds), Digits) - 1))

RECURSIVE StripZeros(_)
StripZeros(ds) ==
    IF Len(ds) > 1 /\ Head(ds) = "0" THEN StripZeros(Tail(ds)) ELSE ds

\* the largest magnitudes of a 64 bit int, as digits: 2^63 - 1 and 2^63
MaxInt64Digits == <<"9","2","2","3","3","7","2","0","3","6","8","5","4","7","7","5","8","0","7">>
MinInt64Digits == <<"9","2","2","3","3","7","2","0","3","6","8","5","4","7","7","5","8","0","8">>

\* a < b or a = b for two digit strings of the same length
RECURSIVE DigitsLeq(_, _)
DigitsLeq(a, b) ==
    IF a = <<>> THEN TRUE
    ELSE IF Head(a) # Head(b)
         THEN IndexOf(Head(a), Digits) < IndexOf(Head(b), Digits)
         ELSE DigitsLeq(Tail(a), Tail(b))

\* whether the magnitude ds (no leading zeros) fits a 64 bit int of that sign
FitsInt64(ds, neg) ==
    \/ Len(ds) < Len(MaxInt64Digits)
    \/ /\ Len(ds) = Len(MaxInt64Digits)
       /\ DigitsLeq(ds, IF neg THEN MinInt64Digits ELSE MaxInt64Digits)

\* strconv.Atoi on a 64 bit platform: an optional sign and decimal digits.
\* The value is computed for the numerals that fit; TLC's integers hold the
\* numerals of the token alphabets below.
Atoi(s) ==
    LET signed == Len(s) > 0 /\ s[1] \in {"+", "-"}
        neg == Len(s) > 0 /\ s[1] = "-"
        ds == IF signed THEN Tail(s) ELSE s
    IN  IF ds = <<>> \/ \E k \in 1..Len(ds) : ~IsDigit(ds[k])
        THEN Fail("syntax")
        ELSE IF ~FitsInt64(StripZeros(ds), neg)
        THEN Fail("range")
        ELSE Ok(IF neg THEN 0 - DigitsValue(ds, 0) ELSE DigitsValue(ds, 0))

\* strconv.ParseInt(s, 64, 64): base 64 is outside 2..36, so every string is
\* refused: the empty string and a bare sign as a syntax error, any other
\* string as an invalid base.
ParseIntBase64(s) ==
    LET signed == Len(s) > 0 /\ s[1] \in {"+", "-"}
        ds == IF signed THEN Tail(s) ELSE s
    IN  IF ds = <<>> THEN Fail("syntax") ELSE Fail("base")

(***************************************************************************)
(* reflect.Type: kinds, struct types and their fields                      *)
(***************************************************************************)
Scalar(kind) == [kind |-> kind, elem |-> "", name |-> ""]
StructOf(n) == [kind |-> "Struct", elem |-> "", name |-> n]
PtrTo(t) == [kind |-> "Ptr", elem |-> t.kind, name |-> t.name]
SliceOf(t) == [kind |-> "Slice", elem |-> t.kind, name |-> t.name]
\* reflect.Type.Elem of a pointer or slice type
Elem(t) == [kind |-> t.elem, elem |-> "", name |-> t.name]

Field(n, tag, t) == [name |-> n, tag |-> tag, typ |-> t]

\* reflect.StructField.IsExported: the name starts with an upper case letter
IsExported(f) == Len(f.name) > 0 /\ f.name[1] \in DOMAIN FoldTable

NoTag == <<>>
PlusTag == <<"+">>

\* type Conf struct {
\*     V    bool     `flag:"omitempty"`
\*     Name string   `flag:"names,n"`
\*     p    string
\*     Sub  *Sub     `flag:"+"`
\*     Alt  Alt      `flag:"+"`
\*     C    int
\*     T    []string `flag:"t"`
\* }
\* type Sub struct { C int `flag:"c"`; P int `flag:"p"`; In *In `flag:"+"` }
\* type In  struct { Q bool `flag:"q"` }
\* type Alt struct { P string `flag:"p"`; Q bool `flag:"q"` }
ConfFields == <<
    Field(<<"V">>, <<"o","m","i","t","e","m","p","t","y">>, Scalar("Bool")),
    Field(<<"N","a","m","e">>, <<"n","a","m","e","s",",","n">>, Scalar("String")),
    Field(<<"p">>, NoTag, Scalar("String")),
    Field(<<"S","u","b">>, PlusTag, PtrTo(StructOf("Sub"))),
    Field(<<"A","l","t">>, PlusTag, StructOf("Alt")),
    Field(<<"C">>, NoTag, Scalar("Int")),
    Field(<<"T">>, <<"t">>, SliceOf(Scalar("String"))) >>
SubFields == <<
    Field(<<"C">>, <<"c">>, Scalar("Int")),
    Field(<<"P">>, <<"p">>, Scalar("Int")),
    Field(<<"I","n">>, PlusTag, PtrTo(StructOf("In"))) >>
InFields == << Field(<<"Q">>, <<"q">>, Scalar("Bool")) >>
AltFields == <<
    Field(<<"P">>, <<"p">>, Scalar("String")),
    Field(<<"Q">>, <<"q">>, Scalar("Bool")) >>

\* type Nums struct {
\*     A int `flag:"a"`; B int8 `flag:"b"`; E int64 `flag:"e"`
\*     U uint `flag:"u"`; L []int `flag:"l"`
\* }
NumsFields == <<
    Field(<<"A">>, <<"a">>, Scalar("Int")),
    Field(<<"B">>, <<"b">>, Scalar("Int8")),
    Field(<<"E">>, <<"e">>, Scalar("Int64")),
    Field(<<"U">>, <<"u">>, Scalar("Uint")),
    Field(<<"L">>, <<"l">>, SliceOf(Scalar("Int"))) >>

\* type Bad struct { A int `flag:"a"`; M int `flag:"+,m"`; B string `flag:"b"` }
BadFields == <<
    Field(<<"A">>, <<"a">>, Scalar("Int")),
    Field(<<"M">>, <<"+",",","m">>, Scalar("Int")),
    Field(<<"B">>, <<"b">>, Scalar("String")) >>

\* type Node struct { Val int `flag:"val"`; Next *Node `flag:"+"` }
NodeFields == <<
    Field(<<"V","a","l">>, <<"v","a","l">>, Scalar("Int")),
    Field(<<"N","e","x","t">>, PlusTag, PtrTo(StructOf("Node"))) >>

\* the record types ApplyTo is run on
Schemas == {"Conf", "Nums", "Bad", "Node"}

\* the declared fields of a struct type, in declaration order
Fields(n) ==
    CASE n = "Conf" -> ConfFields
      [] n = "Sub" -> SubFields
      [] n = "In" -> InFields
      [] n = "Alt" -> AltFields
      [] n = "Nums" -> NumsFields
      [] n = "Bad" -> BadFields
      [] n = "Node" -> NodeFields

(***************************************************************************)
(* the field resolver                                                      *)
(***************************************************************************)
\* f.Tag.Get(FlagTagName) split on ",": an absent tag reads as the empty
\* string, which splits into one empty piece
TagsOf(f) == Split(f.tag)

\* isSubArgTag
isSubArgTag(tags) == \E k \in 1..Len(tags) : tags[k] = <<"+">>

ReservedTags == { <<"o","m","i","t","e","m","p","t","y">>, <<"-">>, <<"+">> }

\* isNameInTag
isNameInTag(name, tags) ==
    \E k \in 1..Len(tags) : tags[k] \notin ReservedTags /\ EqualFold(tags[k], name)

\* isStructPointer
isStructPointer(t) == t.kind = "Ptr" /\ t.elem = "Struct"

\* the test of findFieldIndex on a field tagged "+": its type is a struct or
\* a pointer to one, otherwise log.Panicf
IsSubArgType(t) == isStructPointer(t) \/ t.kind = "Struct"

\* whether the scan of findFieldIndex returns at field f for this name
FieldMatches(name, f) ==
    \/ EqualFold(name, f.name)
    \/ isNameInTag(name, TagsOf(f))

\* results of a search
Found(path) == [kind |-> "found", path |-> path]
NotFound == [kind |-> "notfound", path |-> <<>>]
Panicked == [kind |-> "panic", path |-> <<>>]
Overflow == [kind |-> "overflow", path |-> <<>>]

\* the first loop of findFieldIndex without the test of the type of a "+"
\* field: a mis-declared one is passed over
ScanField_NoPanic(name, f) ==
    IF ~IsExported(f) THEN "skip"
    ELSE IF FieldMatches(name, f) THEN "match"
    ELSE IF isSubArgTag(TagsOf(f)) /\ IsSubArgType(f.typ) THEN "subarg"
    ELSE "skip"

\* one iteration of the first loop of findFieldIndex, at field f: the field
\* is skipped, it matches, it is recorded as a sub argument field, or it is a
\* mis-declared sub argument field and the loop panics
ScanField(name, f) ==
    IF ~IsExported(f) THEN "skip"
    ELSE IF FieldMatches(name, f) THEN "match"
    ELSE IF isSubArgTag(TagsOf(f))
    THEN IF ~IsSubArgType(f.typ) THEN "panic" ELSE "subarg"
    ELSE "skip"

\* The first loop of findFieldIndex over the fields k.. of the type: the
\* index of the first match, a panic at a mis-declared "+" field met before
\* any match, or the indexes of the "+" fields when nothing matched.
RECURSIVE ScanFields(_, _, _, _)
ScanFields(name, flds, k, subArgIndexes) ==
    IF k > Len(flds) THEN [kind |-> "none", idx |-> 0, subs |-> subArgIndexes]
    ELSE LET step == ScanField(name, flds[k])
         IN  CASE step = "match" -> [kind |-> "match", idx |-> k, subs |-> subArgIndexes]
               [] step = "panic" -> [kind |-> "panic", idx |-> k, subs |-> subArgIndexes]
               [] step = "subarg" -> ScanFields(name, flds, k + 1, Append(subArgIndexes, k))
               [] OTHER -> ScanFields(name, flds, k + 1, subArgIndexes)

\* findFieldIndex(name, t, parents); depth counts the frames of the
\* recursion, which the goroutine stack bounds.
RECURSIVE findFieldIndex(_, _, _, _)
RECURSIVE SearchSubArgs(_, _, _, _, _, _)
findFieldIndex(name, t, parents, depth) ==
    IF depth > MaxStack THEN Overflow
    ELSE IF t.kind = "Ptr" THEN findFieldIndex(name, Elem(t), parents, depth + 1)
    ELSE LET scan == ScanFields(name, Fields(t.name), 1, <<>>)
         IN  CASE scan.kind = "match" -> Found(Append(parents, scan.idx))
               [] scan.kind = "panic" -> Panicked
               [] OTHER -> SearchSubArgs(name, t, parents, scan.subs, 1, depth)

\* the second loop of findFieldIndex: the "+" fields in declaration order,
\* the first non-empty result wins
SearchSubArgs(name, t, parents, subs, k, depth) ==
    IF k > Len(subs) THEN NotFound
    ELSE LET p == Append(parents, subs[k])
             is == findFieldIndex(name, Fields(t.name)[subs[k]].typ, p, depth + 1)
         IN  IF is.kind = "notfound"
             THEN SearchSubArgs(name, t, parents, subs, k + 1, depth)
             ELSE is

\* the type of the field at an index path below struct type n
RECURSIVE TypeAt(_, _)
TypeAt(n, path) ==
    LET t == Fields(n)[Head(path)].typ
    IN  IF Len(path) = 1 THEN t ELSE TypeAt(t.name, Tail(path))

(***************************************************************************)
(* reflect.Value: the record                                               *)
(*                                                                         *)
(* The record is a store: alloc is the set of index paths of the pointer   *)
(* fields that are not nil, val maps the index path of a field to the      *)
(* value written to it.  A field with no entry holds the zero value of its *)
(* type.                                                                   *)
(***************************************************************************)
Store(a, v) == [alloc |-> a, val |-> v]

IsPrefix(p, q) == Len(p) <= Len(q) /\ SubSeq(q, 1, Len(p)) = p

\* the zero value of a type
Zero(t) ==
    CASE t.kind = "Bool" -> FALSE
      [] t.kind \in {"String", "Slice"} -> <<>>
      [] OTHER -> 0

\* reading the field at a path
Get(m, n, path) ==
    IF path \in DOMAIN m.val THEN m.val[path] ELSE Zero(TypeAt(n, path))

\* fld.Set(v) on the field at a path
Put(m, path, v) ==
    Store(m.alloc,
          [q \in DOMAIN m.val \cup {path} |-> IF q = path THEN v ELSE m.val[q]])

\* fld.Set(reflect.New(t.Elem())): the pointer at path p refers to a fresh
\* zero value
New(m, p) ==
    Store(m.alloc \cup {p},
          [q \in {r \in DOMAIN m.val : ~IsPrefix(p, r)} |-> m.val[q]])

\* ensureNotNil without the IsNil test: the pointer is replaced even when it
\* already refers to a struct
EnsureStep_AlwaysNew(m, t, p) == IF t.kind = "Ptr" THEN New(m, p) ELSE m

\* ensureNotNil that walks the path and allocates nothing
EnsureStep_NoAlloc(m, t, p) == m

\* one step of ensureNotNil at the field index[1..k]: a nil pointer gets a
\* fresh zero value, anything else is left alone
EnsureStep(m, t, p) ==
    IF t.kind = "Ptr" /\ p \notin m.alloc THEN New(m, p) ELSE m

\* ensureNotNil(v, index), from the k-th index on
RECURSIVE ensureNotNil(_, _, _, _)
ensureNotNil(m, n, index, k) ==
    IF k > Len(index) THEN m
    ELSE LET p == SubSeq(index, 1, k)
         IN  ensureNotNil(EnsureStep(m, TypeAt(n, p), p), n, index, k + 1)

(***************************************************************************)
(* coercion and assignment                                                 *)
(***************************************************************************)
IntKinds == {"Int", "Int8", "Int16", "Int32", "Int64"}
SizedIntKinds == {"Int8", "Int16", "Int32", "Int64"}

\* stringToType
stringToType(s, t) ==
    CASE t.kind = "String" -> Ok(s)
      [] t.kind = "Bool" -> ParseBool(s)
      [] t.kind = "Int" -> Atoi(s)
      [] t.kind \in SizedIntKinds -> ParseIntBase64(s)
      [] OTHER -> Fail("unsupported")

\* the elements of setFieldSlice, converted in order; the first failure is
\* the result
RECURSIVE ConvertAll(_, _, _)
ConvertAll(ss, t, acc) ==
    IF ss = <<>> THEN Ok(acc)
    ELSE LET r == stringToType(Head(ss), t)
         IN  IF r.ok THEN ConvertAll(Tail(ss), t, Append(acc, r.v)) ELSE r

\* setFieldSlice: a new slice of len(ss) elements, set on the field only
\* when every element converted
setFieldSlice(ss, t) == ConvertAll(ss, Elem(t), <<>>)

SetOk(m) == [ok |-> TRUE, e |-> "", m |-> m]
SetFail(e, m) == [ok |-> FALSE, e |-> e, m |-> m]

\* setValue(value, fld) on the field at path, of type t.  None of the
\* modelled types implements encoding.TextUnmarshaler.
RECURSIVE setValue(_, _, _, _)
setValue(value, m, path, t) ==
    CASE t.kind = "Ptr" ->
           setValue(value, IF path \notin m.alloc THEN New(m, path) ELSE m,
                    path, Elem(t))
      [] t.kind = "Slice" ->
           LET r == setFieldSlice(Split(value), t)
           IN  IF r.ok THEN SetOk(Put(m, path, r.v)) ELSE SetFail(r.e, m)
      [] OTHER ->
           LET r == stringToType(value, t)
           IN  IF r.ok THEN SetOk(Put(m, path, r.v)) ELSE SetFail(r.e, m)

(***************************************************************************)
(* the value window                                                        *)
(***************************************************************************)
\* findFlagValue whose bool case falls back to true only when no token
\* follows, and takes any other following token as the value
findFlagValue_NoLookahead(as, t) ==
    LET value == IF Len(as) > 0 /\ ~HasDashPrefix(as[1]) THEN as[1] ELSE <<>>
    IN  IF t.kind = "Bool" /\ value = <<>>
        THEN [ok |-> TRUE, value |-> FormatBool(TRUE), remain |-> as]
        ELSE IF value = <<>>
        THEN [ok |-> FALSE, value |-> <<>>, remain |-> <<>>]
        ELSE [ok |-> TRUE, value |-> value, remain |-> Tail(as)]

\* findFlagValue(args, fldType)
findFlagValue(as, t) ==
    LET value == IF Len(as) > 0 /\ ~HasDashPrefix(as[1]) THEN as[1] ELSE <<>>
    IN  IF t.kind = "Bool" /\ (value = <<>> \/ ~ParseBool(value).ok)
        THEN [ok |-> TRUE, value |-> FormatBool(TRUE), remain |-> as]
        ELSE IF value = <<>>
        THEN [ok |-> FALSE, value |-> <<>>, remain |-> <<>>]
        ELSE [ok |-> TRUE, value |-> value, remain |-> Tail(as)]

(***************************************************************************)
(* inputs                                                                  *)
(***************************************************************************)
\* what the caller hands to ApplyTo as str
Targets == {"PtrStruct", "PtrInterface", "Struct", "PtrInt", "Nil"}

\* reflect.TypeOf(str)
TypeOfTarget(tg, n) ==
    CASE tg = "PtrStruct" -> PtrTo(StructOf(n))
      [] tg = "PtrInterface" -> PtrTo([kind |-> "Interface", elem |-> "", name |-> n])
      [] tg = "Struct" -> StructOf(n)
      [] tg = "PtrInt" -> PtrTo(Scalar("Int"))
      [] OTHER -> [kind |-> "Nil", elem |-> "", name |-> ""]

\* the tokens the lists are drawn from, per record type
ConfTokens == {
    <<"-","-","v">>, <<"-","N">>, <<"-","c">>, <<"-","t">>, <<"-","p">>,
    <<"-","q">>, <<"-">>,
    <<"-","o","m","i","t","e","m","p","t","y">>,
    <<"1">>, S_false, <<"x">>, <<>> }
NumsTokens == {
    <<"-","a">>, <<"-","b">>, <<"-","e">>, <<"-","u">>, <<"-","l">>,
    <<"5">>, <<"5",",","x">>, <<"3","0","0">>,
    <<"9","9","9","9","9","9","9","9","9","9","9","9","9","9","9","9","9","9","9","9">> }
BadTokens == { <<"-","a">>, <<"-","b">>, <<"-","m">>, <<"-","z","z">>, <<"5">> }
NodeTokens == { <<"-","v","a","l">>, <<"-","n","e","x","t">>, <<"-","z","z">>, <<"5">> }

TokensFor(n) ==
    CASE n = "Conf" -> ConfTokens
      [] n = "Nums" -> NumsTokens
      [] n = "Bad" -> BadTokens
      [] OTHER -> NodeTokens

\* the token lists of at most MaxArgs tokens
ArgLists(n) == UNION { [1..k -> TokensFor(n)] : k \in 0..MaxArgs }

\* the calls: a pointer to each record type, and every other kind of target
\* with the Node token lists
Calls ==
    { <<"PtrStruct", n>> : n \in Schemas } \cup { <<tg, "Node">> : tg \in Targets }

(***************************************************************************)
(* ArgFlags.ApplyTo                                                        *)
(*                                                                         *)
(* i is the cursor, counted from 1: args[i] is the token the loop is at.   *)
(* pc is "start" before getStructValue, "loop" in the for loop, "done"     *)
(* once ApplyTo returned (ret, err), "panic" after a panic and "overflow"  *)
(* after the stack of findFieldIndex ran out.                              *)
(***************************************************************************)
NoErr == [kind |-> "", arg |-> <<>>]
Err(kind, arg) == [kind |-> kind, arg |-> arg]

Init ==
    /\ \E c \in Calls : target = c[1] /\ schema = c[2]
    /\ args \in ArgLists(schema)
    /\ alloc = {}
    /\ val = <<>>
    /\ i = 1
    /\ unused = <<>>
    /\ fld = <<>>
    /\ ret = <<>>
    /\ err = NoErr
    /\ pc = "start"

\* newFlagField(strings.TrimLeft(arg, "-"), *v): findField's search
Resolve(arg) == findFieldIndex(TrimLeftDash(arg), StructOf(schema), <<>>, 1)

\* findField's ensureNotNil on the record as it is now
Ensured(path) == ensureNotNil(Store(alloc, val), schema, path, 1)

\* args[i+1:]
Vals == SubSeq(args, i + 1, Len(args))

AtToken == pc = "loop" /\ i <= Len(args)
AtFlag == AtToken /\ HasDashPrefix(args[i])

\* getStructValue succeeds: str is a pointer to a struct
GetStructValue ==
    /\ pc = "start"
    /\ isStructPointer(TypeOfTarget(target, schema))
    /\ pc' = "loop"
    /\ UNCHANGED <<target, schema, args, alloc, val, i, unused, fld, ret, err>>

\* getStructValue fails: ApplyTo returns nil and the error
GetStructValueError ==
    /\ pc = "start"
    /\ target # "Nil"
    /\ ~isStructPointer(TypeOfTarget(target, schema))
    /\ pc' = "done"
    /\ ret' = <<>>
    /\ err' = Err("not a struct pointer", <<>>)
    /\ UNCHANGED <<target, schema, args, alloc, val, i, unused, fld>>

\* reflect.TypeOf(nil) is the nil Type, and isStructPointer calls Kind on it
GetStructValueNil ==
    /\ pc = "start"
    /\ target = "Nil"
    /\ pc' = "panic"
    /\ UNCHANGED <<target, schema, args, alloc, val, i, unused, fld, ret, err>>

\* a token that does not start with "-"
Positional ==
    /\ AtToken
    /\ ~HasDashPrefix(args[i])
    /\ unused' = Append(unused, args[i])
    /\ i' = i + 1
    /\ UNCHANGED <<target, schema, args, alloc, val, fld, ret, err, pc>>

\* a flag no field matches
UnknownFlag ==
    /\ AtFlag
    /\ Resolve(args[i]).kind = "notfound"
    /\ unused' = Append(unused, args[i])
    /\ i' = i + 1
    /\ UNCHANGED <<target, schema, args, alloc, val, fld, ret, err, pc>>

\* log.Panicf of findFieldIndex
ResolvePanic ==
    /\ AtFlag
    /\ Resolve(args[i]).kind = "panic"
    /\ pc' = "panic"
    /\ UNCHANGED <<target, schema, args, alloc, val, i, unused, fld, ret, err>>

\* findFieldIndex recursed until the stack ran out
ResolveOverflow ==
    /\ AtFlag
    /\ Resolve(args[i]).kind = "overflow"
    /\ pc' = "overflow"
    /\ UNCHANGED <<target, schema, args, alloc, val, i, unused, fld, ret, err>>

\* a matched flag for which findFlagValue finds no value
FlagNoValue ==
    /\ AtFlag
    /\ LET r == Resolve(args[i])
           path == r.path
           m == IF r.kind = "found" THEN Ensured(path) ELSE Store(alloc, val)
           fv == findFlagValue(Vals, TypeAt(schema, path))
       IN  /\ r.kind = "found"
           /\ ~fv.ok
           /\ fld' = path
           /\ alloc' = m.alloc
           /\ val' = m.val
           /\ err' = Err("no value found", args[i])
    /\ ret' = <<>>
    /\ pc' = "done"
    /\ UNCHANGED <<target, schema, args, i, unused>>

\* a matched flag whose value SetValue refuses
FlagSetError ==
    /\ AtFlag
    /\ LET r == Resolve(args[i])
           path == r.path
           m == IF r.kind = "found" THEN Ensured(path) ELSE Store(alloc, val)
           fv == findFlagValue(Vals, TypeAt(schema, path))
           sv == setValue(fv.value, m, path, TypeAt(schema, path))
       IN  /\ r.kind = "found"
           /\ fv.ok
           /\ ~sv.ok
           /\ fld' = path
           /\ alloc' = sv.m.alloc
           /\ val' = sv.m.val
           /\ err' = Err(sv.e, args[i])
    /\ ret' = <<>>
    /\ pc' = "done"
    /\ UNCHANGED <<target, schema, args, i, unused>>

\* a matched flag whose value is set; the cursor moves past the flag and
\* past the value findFlagValue took
FlagSet ==
    /\ AtFlag
    /\ LET r == Resolve(args[i])
           path == r.path
           m == IF r.kind = "found" THEN Ensured(path) ELSE Store(alloc, val)
           fv == findFlagValue(Vals, TypeAt(schema, path))
           sv == setValue(fv.value, m, path, TypeAt(schema, path))
       IN  /\ r.kind = "found"
           /\ fv.ok
           /\ sv.ok
           /\ fld' = path
           /\ alloc' = sv.m.alloc
           /\ val' = sv.m.val
           /\ i' = i + (Len(Vals) - Len(fv.remain)) + 1
    /\ UNCHANGED <<target, schema, args, unused, ret, err, pc>>

\* the cursor reached the end: ApplyTo returns unused and no error
Return ==
    /\ pc = "loop"
    /\ i > Len(args)
    /\ ret' = unused
    /\ pc' = "done"
    /\ UNCHANGED <<target, schema, args, alloc, val, i, unused, fld, err>>

Next ==
    \/ GetStructValue
    \/ GetStructValueError
    \/ GetStructValueNil
    \/ Positional
    \/ UnknownFlag
    \/ ResolvePanic
    \/ ResolveOverflow
    \/ FlagNoValue
    \/ FlagSetError
    \/ FlagSet
    \/ Return

Spec == Init /\ [][Next]_vars

(***************************************************************************)
(* Properties                                                              *)
(***************************************************************************)
\* the record before and after a step
Rec == Store(alloc, val)
RecNext == Store(alloc', val')

\* the loop is at a flag that a field matches
AtMatchedFlag == AtFlag /\ Resolve(args[i]).kind = "found"

\* the index path and the type of that field
CurPath == Resolve(args[i]).path
CurType == TypeAt(schema, CurPath)

\* a token follows the flag and does not start with "-"
ValuePresent == i < Len(args) /\ ~HasDashPrefix(args[i + 1])

\* every field that holds a value before or after the step holds the same
\* value before and after
SameValues ==
    \A q \in DOMAIN val \cup DOMAIN val' : Get(RecNext, schema, q) = Get(Rec, schema, q)

\* C1: a flag that resolves to a bool field takes the following token as its
\* value exactly when that token exists, does not start with "-" and is a
\* boolean literal: the field is set to the literal and the cursor moves past
\* both tokens.  In every other case the field is set to true and the cursor
\* moves past the flag only, so the following token is handled next as an
\* ordinary token.  Nothing is added to the unused list either way.
C1_BoolLookahead ==
    [][ (AtMatchedFlag /\ CurType.kind = "Bool") =>
          LET lit == ValuePresent /\ ParseBool(args[i + 1]).ok
          IN  /\ pc' = "loop"
              /\ unused' = unused
              /\ IF lit
                 THEN /\ Get(RecNext, schema, CurPath) = ParseBool(args[i + 1]).v
                      /\ i' = i + 2
                 ELSE /\ Get(RecNext, schema, CurPath) = TRUE
                      /\ i' = i + 1 ]_vars

\* "--v false --v": the first flag took the literal false, the second one, at
\* the end of the list, set V to true
C1_Witness ==
    /\ schema = "Conf"
    /\ args = << <<"-","-","v">>, S_false, <<"-","-","v">> >>
    /\ pc = "done"
    /\ err = NoErr
    /\ ret = <<>>
    /\ Get(Rec, schema, <<1>>) = TRUE

\* C2: a flag that resolves to a field that is not a bool takes the following
\* token as its value whenever that token exists and does not start with "-",
\* whatever the token is, and the cursor then moves past both; the "no value
\* found" error, naming the flag, is returned exactly when no such token
\* follows.  (Stated for the flags with a non-empty name.)
C2_NonBoolValue ==
    [][ (AtMatchedFlag /\ CurType.kind # "Bool" /\ TrimLeftDash(args[i]) # <<>>) =>
          /\ (err'.kind = "no value found") <=> ~ValuePresent
          /\ (ValuePresent /\ pc' = "loop") => i' = i + 2
          /\ ~ValuePresent => (pc' = "done" /\ err'.arg = args[i]) ]_vars

\* whether the value of the matched flag fails: findFlagValue finds none or
\* setValue refuses it
ValueFails ==
    LET fv == findFlagValue(Vals, CurType)
    IN  \/ ~fv.ok
        \/ ~setValue(fv.value, Ensured(CurPath), CurPath, CurType).ok

\* C6: when the value of a matched flag fails, ApplyTo returns at that flag
\* with an error that names the flag token and with no unused list; the
\* cursor does not move, every field keeps the value it had, and once
\* ApplyTo returned the record does not change any more.  A matched flag
\* whose value does not fail does not end the call.
C6_AbortAtFlag ==
    [][ /\ AtMatchedFlag =>
            /\ ValueFails <=> pc' = "done"
            /\ pc' = "done" =>
                  /\ err'.kind # ""
                  /\ err'.arg = args[i]
                  /\ ret' = <<>>
                  /\ i' = i
                  /\ SameValues
        /\ pc \in {"done", "panic", "overflow"} => UNCHANGED <<alloc, val>> ]_vars

\* "-p 1 -p": the second -p has no value; P keeps the 1 of the first
C6_Witness ==
    /\ schema = "Conf"
    /\ args = << <<"-","p">>, <<"1">>, <<"-","p">> >>
    /\ pc = "done"
    /\ err = Err("no value found", <<"-","p">>)
    /\ ret = <<>>
    /\ Get(Rec, schema, <<4, 2>>) = 1

\* the pointer fields on an index path
PointersOn(path) ==
    { SubSeq(path, 1, k) : k \in { j \in 1..Len(path) :
                                     TypeAt(schema, SubSeq(path, 1, j)).kind = "Ptr" } }

\* C7: a flag that resolves to a field makes every pointer on the resolved
\* index path non-nil; the pointers that were non-nil stay, no pointer off
\* the path is allocated, every other field keeps its value, and when the
\* value is accepted the resolved field is set.
C7_LazyPath ==
    [][ AtMatchedFlag =>
          /\ PointersOn(CurPath) \subseteq alloc'
          /\ alloc \subseteq alloc'
          /\ (alloc' \ alloc) \subseteq PointersOn(CurPath)
          /\ \A q \in DOMAIN val \ {CurPath} : q \in DOMAIN val' /\ val'[q] = val[q]
          /\ pc' = "loop" => CurPath \in DOMAIN val' ]_vars

\* "-p 1 -q": -p allocated Sub only, -q allocated Sub.In and kept Sub and P
C7_Witness ==
    /\ schema = "Conf"
    /\ args = << <<"-","p">>, <<"1">>, <<"-","q">> >>
    /\ pc = "done"
    /\ alloc = { <<4>>, <<4, 3>> }
    /\ Get(Rec, schema, <<4, 2>>) = 1
    /\ Get(Rec, schema, <<4, 3, 1>>) = TRUE

\* the aliases a field declares: the pieces of its tag, the reserved markers
\* left out; a field without a tag declares none
DeclaredAliases(f) ==
    IF f.tag = <<>> THEN {}
    ELSE { TagsOf(f)[k] : k \in 1..Len(TagsOf(f)) } \ ReservedTags

\* an exported field whose name or one of whose declared aliases is the name,
\* letter case aside
NameMatches(name, f) ==
    /\ IsExported(f)
    /\ \/ EqualFold(name, f.name)
       \/ \E a \in DeclaredAliases(f) : EqualFold(a, name)

\* the index paths of the fields flags can name: the fields of the type and,
\* through its well-declared exported "+" fields, those of the promoted
\* sub-structures, to a depth of MaxStack
RECURSIVE PromotedPaths(_, _, _)
PromotedPaths(n, prefix, depth) ==
    LET flds == Fields(n)
        direct == { Append(prefix, k) : k \in 1..Len(flds) }
        subs == { k \in 1..Len(flds) :
                    /\ IsExported(flds[k])
                    /\ isSubArgTag(TagsOf(flds[k]))
                    /\ IsSubArgType(flds[k].typ) }
    IN  IF depth >= MaxStack THEN direct
        ELSE direct \cup UNION { PromotedPaths(flds[k].typ.name, Append(prefix, k), depth + 1) :
                                   k \in subs }

\* the field at an index path
RECURSIVE FieldAt(_, _)
FieldAt(n, path) ==
    LET f == Fields(n)[Head(path)]
    IN  IF Len(path) = 1 THEN f ELSE FieldAt(f.typ.name, Tail(path))

\* the first position at which two different paths part
PartAt(p, q) ==
    CHOOSE k \in 1..(Len(p) + 1) :
        /\ k > Len(p) \/ k > Len(q) \/ p[k] # q[k]
        /\ \A j \in 1..(k - 1) : j <= Len(q) /\ p[j] = q[j]

\* the search order: in the type where two paths part, a direct field comes
\* before any field of a promoted sub-structure, two direct fields and two
\* sub-structures come in declaration order
Before(p, q) ==
    LET k == PartAt(p, q)
    IN  IF k > Len(p) THEN TRUE
        ELSE IF k > Len(q) THEN FALSE
        ELSE IF Len(p) = k /\ Len(q) > k THEN TRUE
        ELSE IF Len(q) = k /\ Len(p) > k THEN FALSE
        ELSE p[k] < q[k]

\* the first matching field in the search order, or not-found
FirstMatch(name) ==
    LET M == { p \in PromotedPaths(schema, <<>>, 1) : NameMatches(name, FieldAt(schema, p)) }
    IN  IF M = {} THEN NotFound
        ELSE Found(CHOOSE p \in M : \A q \in M \ {p} : Before(p, q))

\* C4: whenever the resolver returns a path or not-found for the name of a
\* flag, it is the first field, in the search order, whose name or one of
\* whose declared aliases equals the name, letter case aside; it is not-found
\* exactly when no such field exists.  A field that declares no alias matches
\* by its name only.
C4_FirstMatch ==
    (AtFlag /\ Resolve(args[i]).kind \in {"found", "notfound"}) =>
        Resolve(args[i]) = FirstMatch(TrimLeftDash(args[i]))

\* the unused list of the claim: the tokens that are neither a flag a field
\* matches nor the value such a flag consumes, in order
RECURSIVE ExpectedUnused(_)
ExpectedUnused(k) ==
    IF k > Len(args) THEN <<>>
    ELSE IF ~HasDashPrefix(args[k]) THEN <<args[k]>> \o ExpectedUnused(k + 1)
    ELSE LET r == FirstMatch(TrimLeftDash(args[k]))
             present == k < Len(args) /\ ~HasDashPrefix(args[k + 1])
         IN  IF r.kind = "notfound" THEN <<args[k]>> \o ExpectedUnused(k + 1)
             ELSE IF TypeAt(schema, r.path).kind = "Bool"
             THEN ExpectedUnused(IF present /\ ParseBool(args[k + 1]).ok THEN k + 2 ELSE k + 1)
             ELSE ExpectedUnused(IF present THEN k + 2 ELSE k + 1)

\* C3: when ApplyTo returns without error, the unused list is the non-flag
\* tokens no matched flag consumed and the flag tokens whose name, the empty
\* name included, is no exported field name and no declared alias, unmodified
\* and in their order.
C3_UnusedList ==
    (pc = "done" /\ err = NoErr) => ret = ExpectedUnused(1)

\* a base-10 integer: an optional sign and one digit or more
IsNumeral(s) ==
    LET ds == IF Len(s) > 0 /\ s[1] \in {"+", "-"} THEN Tail(s) ELSE s
    IN  ds # <<>> /\ \A k \in 1..Len(ds) : IsDigit(ds[k])

\* the largest magnitude of each signed width, for a positive and for a
\* negative number, as digits
WidthLimit(kind, neg) ==
    CASE kind = "Int8" -> IF neg THEN <<"1","2","8">> ELSE <<"1","2","7">>
      [] kind = "Int16" -> IF neg THEN <<"3","2","7","6","8">> ELSE <<"3","2","7","6","7">>
      [] kind = "Int32" -> IF neg THEN <<"2","1","4","7","4","8","3","6","4","8">>
                                   ELSE <<"2","1","4","7","4","8","3","6","4","7">>
      [] OTHER -> IF neg THEN MinInt64Digits ELSE MaxInt64Digits

\* a numeral within the range of the width
NumeralFits(s, kind) ==
    /\ IsNumeral(s)
    /\ LET neg == s[1] = "-"
           ds == StripZeros(IF s[1] \in {"+", "-"} THEN Tail(s) ELSE s)
           lim == WidthLimit(kind, neg)
       IN  Len(ds) < Len(lim) \/ (Len(ds) = Len(lim) /\ DigitsLeq(ds, lim))

\* the integer a numeral denotes
NumeralValue(s) ==
    LET ds == IF s[1] \in {"+", "-"} THEN Tail(s) ELSE s
    IN  IF s[1] = "-" THEN 0 - DigitsValue(ds, 0) ELSE DigitsValue(ds, 0)

\* C5: for a field of every signed integer width, a value that is a base-10
\* integer within the range of the width is accepted and the field holds that
\* integer; any other value is refused with a coercion error naming the flag
\* and the field keeps its value.  (Stated for the non-empty values.)
C5_SignedInts ==
    [][ (AtMatchedFlag /\ CurType.kind \in IntKinds /\ ValuePresent /\ args[i + 1] # <<>>) =>
          IF NumeralFits(args[i + 1], CurType.kind)
          THEN /\ pc' = "loop"
               /\ Get(RecNext, schema, CurPath) = NumeralValue(args[i + 1])
          ELSE /\ pc' = "done"
               /\ err'.kind \in {"syntax", "range"}
               /\ err'.arg = args[i]
               /\ SameValues ]_vars

\* the exported fields of a type that carry the "+" marker and are neither a
\* struct nor a pointer to one
Misdeclared(n) ==
    { k \in 1..Len(Fields(n)) :
        /\ IsExported(Fields(n)[k])
        /\ isSubArgTag(TagsOf(Fields(n)[k]))
        /\ ~IsSubArgType(Fields(n)[k].typ) }

FirstMisdeclared(n) == CHOOSE k \in Misdeclared(n) : \A j \in Misdeclared(n) : k <= j

C9_Targets ==
    pc # "start" =>
        IF target \in {"PtrStruct", "PtrInterface"}
        THEN err.kind # "not a struct pointer"
        ELSE /\ pc = "done"
             /\ err.kind = "not a struct pointer"
             /\ ret = <<>>
             /\ i = 1
             /\ unused = <<>>
             /\ alloc = {}
             /\ val = <<>>

\* C10: ApplyTo terminates: no search of the resolver runs out of stack, and
\* the cursor moves forward at every token until it is one past the end.
C10_Terminates ==
    /\ pc # "overflow"
    /\ pc = "loop" => i <= Len(args) + 1

====
